---------------------------- MODULE Spec2Model ----------------------------
(***************************************************************************)
(* Model of the SSD1306 OLED driver (Core/Src/hardware/screen/SSD1306.c)   *)
(* and of its font table (numbersVerdana16.c).                              *)
(*                                                                         *)
(* Conventions                                                             *)
(*  - an angle (a C float in degrees) is an integer number of hundredths   *)
(*    of a degree: 12.3 deg is 1230, NEG_THRESHOLD (-0.05f) is -5;         *)
(*  - a GPIO level is "GPIO_PIN_SET" or "GPIO_PIN_RESET"; the chip select  *)
(*    is active low (SSD1306_ENABLE_SPI writes GPIO_PIN_RESET);            *)
(*  - every API call is one action.  The pin writes and SPI calls it makes *)
(*    are appended, in program order, to the trace bus, which is emptied   *)
(*    at the start of every call; the HAL's answers to the successive SPI  *)
(*    requests of one call are drawn from an oracle (a function from the   *)
(*    request's ordinal in the call to a HAL_StatusTypeDef);               *)
(*  - screenBuffer holds _screenBuffer[0..131], the only bytes the driver  *)
(*    ever writes; _screenBuffer[132..1023] keep their zero initialiser.   *)
(***************************************************************************)
EXTENDS Integers, Sequences, FiniteSets, TLC

----------------------------------------------------------------------------
(* Program constants, SSD1306.c lines 15-28 *)

SPI_TIMEOUT_MS == 10
MAX_PARAMETERS == 6
MAX_DATA_SIZE == 1024
MIN_ANGLE_DEG == -9000
MAX_ANGLE_DEG == 9000
FLOAT_FACTOR_10 == 10
INT_FACTOR_10 == 10
NEG_THRESHOLD == -5
INDEX_SIGN == 0
INDEX_TENS == 1
INDEX_UNITS == 2
INDEX_TENTHS == 4
ANGLE_NB_CHARS == 6
NB_INIT_REGISERS == 8

(* Number of hundredths of a degree in one degree (the scale of the angles) *)
ANGLE_SCALE == 100

(* Constants of numbersVerdana16.h *)
VERDANA_CHAR_WIDTH == 11
VERDANA_NB_PAGES == 2
VERDANA_NB_BYTES_CHAR == 22
NB_NUMBERS == 14
INDEX_DOT == 10
INDEX_PLUS == 11
INDEX_MINUS == 12
INDEX_DEG == 13

(* Widths of the C integer types *)
UINT8_MOD == 256
UINT16_MOD == 65536

GPIO_PIN_SET == "GPIO_PIN_SET"
GPIO_PIN_RESET == "GPIO_PIN_RESET"
GPIO_PinState == {GPIO_PIN_RESET, GPIO_PIN_SET}

HAL_OK == "HAL_OK"
(* The driver only compares a status with HAL_OK: HAL_ERROR stands for every *)
(* other value of the enumeration (HAL_ERROR, HAL_BUSY, HAL_TIMEOUT)        *)
HAL_StatusTypeDef == {"HAL_OK", "HAL_ERROR"}

HAL_SPI_STATE_READY == "HAL_SPI_STATE_READY"
HAL_SPI_STATE_BUSY_TX == "HAL_SPI_STATE_BUSY_TX"

(* The three state handlers _state can point to *)
ST_IDLE == "stIdle"
ST_PRINTING_ANGLE == "stPrintingAngle"
ST_WAITING_FOR_TX_DONE == "stWaitingForTXdone"

----------------------------------------------------------------------------
(* Font table: verdana_16ptNumbers[NB_NUMBERS][VERDANA_NB_BYTES_CHAR] *)

verdana_16ptNumbers ==
  <<
    << 240, 252, 14, 7, 3, 3, 3, 7, 14, 252, 240,
       15, 63, 112, 224, 192, 192, 192, 224, 112, 63, 15 >>,   \* [INDEX_0], line 38
    << 0, 0, 12, 12, 12, 255, 255, 0, 0, 0, 0,
       0, 0, 192, 192, 192, 255, 255, 192, 192, 192, 0 >>,   \* [INDEX_1], line 60
    << 0, 6, 3, 3, 3, 3, 3, 135, 254, 124, 0,
       0, 224, 240, 248, 220, 206, 199, 195, 192, 192, 192 >>,   \* [INDEX_2], line 82
    << 0, 6, 3, 3, 195, 195, 195, 231, 62, 28, 0,
       0, 96, 192, 192, 192, 192, 192, 97, 127, 30, 0 >>,   \* [INDEX_3], line 104
    << 0, 128, 192, 240, 56, 28, 14, 255, 255, 0, 0,
       7, 7, 7, 6, 6, 6, 6, 255, 255, 6, 6 >>,   \* [INDEX_4], line 126
    << 0, 0, 255, 255, 195, 195, 195, 195, 195, 131, 3,
       0, 96, 192, 192, 192, 192, 192, 192, 97, 127, 31 >>,   \* [INDEX_5], line 148
    << 224, 248, 156, 198, 199, 195, 195, 195, 131, 128, 0,
       15, 63, 113, 224, 192, 192, 192, 192, 97, 63, 31 >>,   \* [INDEX_6], line 170
    << 0, 3, 3, 3, 3, 3, 3, 195, 243, 63, 15,
       0, 0, 128, 224, 248, 62, 15, 3, 0, 0, 0 >>,   \* [INDEX_7], line 192
    << 60, 126, 102, 195, 195, 131, 131, 195, 70, 126, 60,
       62, 127, 97, 192, 192, 192, 193, 193, 99, 127, 30 >>,   \* [INDEX_8], line 214
    << 248, 252, 134, 3, 3, 3, 3, 7, 142, 252, 240,
       0, 1, 193, 195, 195, 195, 227, 99, 57, 31, 7 >>,   \* [INDEX_9], line 236
    << 0, 0, 0, 0, 0, 0, 0, 0, 0, 0, 0,
       0, 0, 0, 0, 0, 224, 224, 0, 0, 0, 0 >>,   \* [INDEX_DOT], line 258
    << 0, 0, 0, 0, 192, 192, 0, 0, 0, 0, 0,
       12, 12, 12, 12, 255, 255, 12, 12, 12, 12, 0 >>,   \* [INDEX_PLUS], line 280
    << 0, 0, 0, 0, 0, 0, 0, 0, 0, 0, 0,
       0, 0, 0, 3, 3, 3, 3, 3, 3, 0, 0 >>,   \* [INDEX_MINUS], line 302
    << 0, 0, 60, 126, 231, 195, 195, 231, 126, 60, 0,
       0, 0, 0, 0, 0, 0, 0, 0, 0, 0, 0 >>   \* [INDEX_DEG], line 324
  >>

(* verdana_16ptNumbers[index][offset], both counted from 0 as in C *)
FontByte(index, offset) == verdana_16ptNumbers[index + 1][offset + 1]

----------------------------------------------------------------------------
(* Error codes (errorstack): severity, the stack of (function, site) tags   *)
(* pushed so far, innermost first, and the HAL status of layer 1.           *)

ERR_SUCCESS == [level |-> "ERR_SUCCESS", stack |-> <<>>, layer1 |-> "NONE"]

createErrorCode(func, code, level) ==
  [level |-> level, stack |-> << <<func, code>> >>, layer1 |-> "NONE"]

createErrorCodeLayer1(func, code, HALresult, level) ==
  [level |-> level, stack |-> << <<func, code>> >>, layer1 |-> HALresult]

pushErrorCode(result, func, code) ==
  [result EXCEPT !.stack = Append(@, <<func, code>>)]

IS_ERROR(result) == result.level \notin {"ERR_SUCCESS", "ERR_WARNING"}


----------------------------------------------------------------------------
(* The hardware as one call sees it.  A context hw is a record              *)
(*   CS, DC, RST : levels of the three GPIO lines                           *)
(*   spi         : HAL state of the SPI peripheral; BUSY_TX exactly while a *)
(*                 DMA transfer is in flight                                *)
(*   bus         : pin writes and SPI requests made so far by the call      *)
(*   k           : ordinal of the next SPI request of the call              *)
(*   hal         : HAL status of the last SPI request                       *)

GpioEvent(pin, level) ==
  [ev |-> "gpio", pin |-> pin, level |-> level, dc |-> "NONE", cs |-> "NONE",
   bytes |-> <<>>, status |-> "NONE", busy |-> FALSE]

SpiEvent(kind, hw, bytes, status) ==
  [ev |-> kind, pin |-> "NONE", level |-> "NONE", dc |-> hw.DC, cs |-> hw.CS,
   bytes |-> bytes, status |-> status, busy |-> (hw.spi # HAL_SPI_STATE_READY)]

HAL_GPIO_WritePin(hw, pin, level) ==
  [hw EXCEPT ![pin] = level, !.bus = Append(@, GpioEvent(pin, level))]

(* Blocking transmit: the transfer is over when the call returns *)
HAL_SPI_Transmit(hw, oracle, bytes) ==
  [hw EXCEPT !.hal = oracle[hw.k],
             !.k = @ + 1,
             !.bus = Append(@, SpiEvent("transmit", hw, bytes, oracle[hw.k]))]

(* DMA transmit: returns at once; when accepted the transfer stays in flight *)
HAL_SPI_Transmit_DMA(hw, oracle, bytes) ==
  [hw EXCEPT !.hal = oracle[hw.k],
             !.k = @ + 1,
             !.spi = IF oracle[hw.k] = HAL_OK THEN HAL_SPI_STATE_BUSY_TX ELSE @,
             !.bus = Append(@, SpiEvent("transmit_dma", hw, bytes, oracle[hw.k]))]

HAL_SPI_DMAStop(hw) ==
  [hw EXCEPT !.spi = HAL_SPI_STATE_READY,
             !.bus = Append(@, SpiEvent("dma_stop", hw, <<>>, HAL_OK))]

HAL_SPI_GetState(hw) == hw.spi

(* Macros, SSD1306.c lines 31-34 *)
SSD1306_ENABLE_SPI(hw) == HAL_GPIO_WritePin(hw, "CS", GPIO_PIN_RESET)
SSD1306_DISABLE_SPI(hw) == HAL_GPIO_WritePin(hw, "CS", GPIO_PIN_SET)
SSD1306_SET_COMMAND(hw) == HAL_GPIO_WritePin(hw, "DC", GPIO_PIN_RESET)
SSD1306_SET_DATA(hw) == HAL_GPIO_WritePin(hw, "DC", GPIO_PIN_SET)

----------------------------------------------------------------------------
(* Transport.  Each function returns [hw |-> context after, result |-> code]. *)
(* A function is written as a chain of operators, one per stretch of its     *)
(* code, each taking the context reached so far.                             *)

(* Line 173-174: disable SPI and return status *)
SendCommandReturn(hw, result) ==
  [hw |-> SSD1306_DISABLE_SPI(hw), result |-> result]

(* Lines 168-174, after the parameters were transmitted *)
SendCommandParametersSent(hw) ==
  SendCommandReturn(hw,
    IF hw.hal # HAL_OK
    THEN createErrorCodeLayer1("SEND_CMD", 3, hw.hal, "ERR_ERROR")
    ELSE ERR_SUCCESS)

(* Lines 160-174 returning at once, CS left asserted, when the command byte *)
(* failed                                                                   *)
SendCommandByteSent_CsLeftAsserted(hw, oracle, parameters, nbParameters) ==
  IF hw.hal # HAL_OK
  THEN [hw |-> hw,
        result |-> createErrorCodeLayer1("SEND_CMD", 2, hw.hal, "ERR_ERROR")]
  ELSE IF (parameters # <<>>) /\ (nbParameters # 0)
  THEN SendCommandParametersSent(
         HAL_SPI_Transmit(hw, oracle, SubSeq(parameters, 1, nbParameters)))
  ELSE SendCommandReturn(hw, ERR_SUCCESS)

(* Lines 160-174, after the command byte was transmitted *)
SendCommandByteSent(hw, oracle, parameters, nbParameters) ==
  IF hw.hal # HAL_OK
  THEN [hw |-> SSD1306_DISABLE_SPI(hw),
        result |-> createErrorCodeLayer1("SEND_CMD", 2, hw.hal, "ERR_ERROR")]
  ELSE IF (parameters # <<>>) /\ (nbParameters # 0)
  THEN SendCommandParametersSent(
         HAL_SPI_Transmit(hw, oracle, SubSeq(parameters, 1, nbParameters)))
  ELSE SendCommandReturn(hw, ERR_SUCCESS)

SSD1306sendCommand(hw, oracle, regNumber, parameters, nbParameters) ==
  IF nbParameters > MAX_PARAMETERS
  THEN [hw |-> hw, result |-> createErrorCode("SEND_CMD", 1, "ERR_WARNING")]
  ELSE SendCommandByteSent(
         HAL_SPI_Transmit(SSD1306_ENABLE_SPI(SSD1306_SET_COMMAND(hw)), oracle,
                          <<regNumber>>),
         oracle, parameters, nbParameters)

(* Lines 204-209, after the buffer was transmitted *)
SendDataSent(hw) ==
  [hw |-> SSD1306_DISABLE_SPI(hw),
   result |-> IF hw.hal # HAL_OK
              THEN createErrorCodeLayer1("SEND_DATA", 2, hw.hal, "ERR_ERROR")
              ELSE ERR_SUCCESS]

SSD1306sendData(hw, oracle, values, size) ==
  IF (values = <<>>) \/ (size = 0)
  THEN [hw |-> hw, result |-> ERR_SUCCESS]
  ELSE IF size > MAX_DATA_SIZE
  THEN [hw |-> hw, result |-> createErrorCode("SEND_DATA", 1, "ERR_WARNING")]
  ELSE SendDataSent(
         HAL_SPI_Transmit(SSD1306_ENABLE_SPI(SSD1306_SET_DATA(hw)), oracle,
                          SubSeq(values, 1, size)))

----------------------------------------------------------------------------
(* Initialisation and clear *)

(* initCommands with DISPLAY_ON and CHG_PUMP_REGULATOR exchanged *)
initCommands_DisplayOnBeforePump ==
  << [reg |-> "SCAN_DIRECTION_N1_0", nbParameters |-> 0, value |-> "0x00"],
     [reg |-> "HARDWARE_CONFIG",     nbParameters |-> 1, value |-> "SSD_PIN_CONFIG_ALT|SSD_COM_REMAP_DISABLE"],
     [reg |-> "SEGMENT_REMAP_127",   nbParameters |-> 0, value |-> "0x00"],
     [reg |-> "MEMORY_ADDR_MODE",    nbParameters |-> 1, value |-> "SSD_HORIZONTAL_ADDR"],
     [reg |-> "CONTRAST_CONTROL",    nbParameters |-> 1, value |-> "SSD_CONTRAST_HIGHEST"],
     [reg |-> "CLOCK_DIVIDE_RATIO",  nbParameters |-> 1, value |-> "SSD_CLOCK_FREQ_MID|SSD_CLOCK_DIVIDER_1"],
     [reg |-> "DISPLAY_ON",          nbParameters |-> 0, value |-> "0x00"],
     [reg |-> "CHG_PUMP_REGULATOR",  nbParameters |-> 1, value |-> "SSD_ENABLE_CHG_PUMP"] >>

initCommands ==
  << [reg |-> "SCAN_DIRECTION_N1_0", nbParameters |-> 0, value |-> "0x00"],
     [reg |-> "HARDWARE_CONFIG",     nbParameters |-> 1, value |-> "SSD_PIN_CONFIG_ALT|SSD_COM_REMAP_DISABLE"],
     [reg |-> "SEGMENT_REMAP_127",   nbParameters |-> 0, value |-> "0x00"],
     [reg |-> "MEMORY_ADDR_MODE",    nbParameters |-> 1, value |-> "SSD_HORIZONTAL_ADDR"],
     [reg |-> "CONTRAST_CONTROL",    nbParameters |-> 1, value |-> "SSD_CONTRAST_HIGHEST"],
     [reg |-> "CLOCK_DIVIDE_RATIO",  nbParameters |-> 1, value |-> "SSD_CLOCK_FREQ_MID|SSD_CLOCK_DIVIDER_1"],
     [reg |-> "CHG_PUMP_REGULATOR",  nbParameters |-> 1, value |-> "SSD_ENABLE_CHG_PUMP"],
     [reg |-> "DISPLAY_ON",          nbParameters |-> 0, value |-> "0x00"] >>

(* The whole _screenBuffer[MAX_DATA_SIZE], given its first 132 bytes *)
WholeScreenBuffer(buffer) ==
  [i \in 1..MAX_DATA_SIZE |-> IF i <= Len(buffer) THEN buffer[i] ELSE 0]

(* Lines 238-241, r being what SSD1306sendData returned *)
ClearScreenDataSent(r) ==
  IF IS_ERROR(r.result)
  THEN [hw |-> r.hw, result |-> pushErrorCode(r.result, "CLR_SCREEN", 3)]
  ELSE [hw |-> r.hw, result |-> ERR_SUCCESS]

(* Lines 233-241, r being what the PAGE_ADDRESS command returned *)
ClearScreenPagesSent(r, oracle, buffer) ==
  IF IS_ERROR(r.result)
  THEN [hw |-> r.hw, result |-> pushErrorCode(r.result, "CLR_SCREEN", 2)]
  ELSE ClearScreenDataSent(
         SSD1306sendData(r.hw, oracle, WholeScreenBuffer(buffer), MAX_DATA_SIZE))

(* Lines 228-241, r being what the COLUMN_ADDRESS command returned *)
ClearScreenColumnsSent(r, oracle, buffer) ==
  IF IS_ERROR(r.result)
  THEN [hw |-> r.hw, result |-> pushErrorCode(r.result, "CLR_SCREEN", 1)]
  ELSE ClearScreenPagesSent(
         SSD1306sendCommand(r.hw, oracle, "PAGE_ADDRESS", <<0, 31>>, 2),
         oracle, buffer)

SSD1306clearScreen(hw, oracle, buffer) ==
  ClearScreenColumnsSent(
    SSD1306sendCommand(hw, oracle, "COLUMN_ADDRESS", <<0, 127>>, 2),
    oracle, buffer)

(* Lines 129-132, r being what SSD1306clearScreen returned *)
InitialiseCleared(r) ==
  IF IS_ERROR(r.result)
  THEN [hw |-> r.hw, result |-> pushErrorCode(r.result, "INIT", 2)]
  ELSE [hw |-> r.hw, result |-> ERR_SUCCESS]

(* The loop going on to the next register whatever the command returned *)
RECURSIVE InitRegisters_ResultIgnored(_, _, _, _)
InitRegisters_ResultIgnored(r, oracle, i, buffer) ==
  IF i >= NB_INIT_REGISERS
  THEN InitialiseCleared(SSD1306clearScreen(r.hw, oracle, buffer))
  ELSE InitRegisters_ResultIgnored(
         SSD1306sendCommand(r.hw, oracle, initCommands[i + 1].reg,
                            <<initCommands[i + 1].value>>,
                            initCommands[i + 1].nbParameters),
         oracle, i + 1, buffer)

(* The for loop of lines 122-126 from index i (counted from 0) on, then     *)
(* lines 128-132; r is what the command of index i - 1 returned             *)
RECURSIVE InitRegisters(_, _, _, _)
InitRegisters(r, oracle, i, buffer) ==
  IF IS_ERROR(r.result)
  THEN [hw |-> r.hw, result |-> pushErrorCode(r.result, "INIT", 1)]
  ELSE IF i >= NB_INIT_REGISERS
  THEN InitialiseCleared(SSD1306clearScreen(r.hw, oracle, buffer))
  ELSE InitRegisters(
         SSD1306sendCommand(r.hw, oracle, initCommands[i + 1].reg,
                            <<initCommands[i + 1].value>>,
                            initCommands[i + 1].nbParameters),
         oracle, i + 1, buffer)

SSD1306initialise(hw, oracle, buffer) ==
  InitRegisters(
    [hw |-> HAL_GPIO_WritePin(
              HAL_GPIO_WritePin(SSD1306_DISABLE_SPI(hw), "RST", GPIO_PIN_RESET),
              "RST", GPIO_PIN_SET),
     result |-> ERR_SUCCESS],
    oracle, 0, buffer)

----------------------------------------------------------------------------
(* C conversions *)

(* Conversion of the real n/d to an integer type: the fraction is discarded *)
(* (truncation toward zero)                                                 *)
FloatToInt(n, d) == IF n >= 0 THEN n \div d ELSE -((-n) \div d)

ToUint8(v) == v % UINT8_MOD
ToUint16(v) == v % UINT16_MOD

----------------------------------------------------------------------------
(* Request API *)

isScreenReady(st) == st = ST_IDLE

(* SSD1306_printAngle with the two limits themselves refused *)
SSD1306_printAngle_LimitsRefused(angle, page, column, st, curAngle, curPage, curColumn) ==
  IF (angle <= MIN_ANGLE_DEG) \/ (angle >= MAX_ANGLE_DEG)
  THEN [result |-> createErrorCode("PRT_ANGLE", 1, "ERR_WARNING"),
        state |-> st, nextAngle |-> curAngle, nextPage |-> curPage,
        nextColumn |-> curColumn]
  ELSE [result |-> ERR_SUCCESS,
        state |-> ST_PRINTING_ANGLE, nextAngle |-> angle, nextPage |-> page,
        nextColumn |-> column]

(* Returns the result and the new values of the latched request and state *)
SSD1306_printAngle(angle, page, column, st, curAngle, curPage, curColumn) ==
  IF (angle < MIN_ANGLE_DEG) \/ (angle > MAX_ANGLE_DEG)
  THEN [result |-> createErrorCode("PRT_ANGLE", 1, "ERR_WARNING"),
        state |-> st, nextAngle |-> curAngle, nextPage |-> curPage,
        nextColumn |-> curColumn]
  ELSE [result |-> ERR_SUCCESS,
        state |-> ST_PRINTING_ANGLE, nextAngle |-> angle, nextPage |-> page,
        nextColumn |-> column]

----------------------------------------------------------------------------
(* Angle renderer *)

(* The sign test with zero as its threshold *)
AngleSign_BelowZero(angle) ==
  IF angle < 0
  THEN [sign |-> INDEX_MINUS, nextAngle |-> -angle]
  ELSE [sign |-> INDEX_PLUS, nextAngle |-> angle]

(* Lines 318-321: the sign test; returns the sign glyph and the new value   *)
(* of _nextAngle                                                            *)
AngleSign(angle) ==
  IF angle < NEG_THRESHOLD
  THEN [sign |-> INDEX_MINUS, nextAngle |-> -angle]
  ELSE [sign |-> INDEX_PLUS, nextAngle |-> angle]

(* Lines 324-326: tens, units and tenths of the value a of _nextAngle *)
AngleTens(a) == ToUint8(FloatToInt(a, ANGLE_SCALE * FLOAT_FACTOR_10))
AngleUnits(a) == ToUint8(FloatToInt(a, ANGLE_SCALE)) % INT_FACTOR_10
(* The tenths taken without the multiplication by FLOAT_FACTOR_10 *)
AngleTenths_NotScaled(a) ==
  ToUint8(ToUint16(FloatToInt(a, ANGLE_SCALE)) % INT_FACTOR_10)

AngleTenths(a) ==
  ToUint8(ToUint16(FloatToInt(a * FLOAT_FACTOR_10, ANGLE_SCALE)) % INT_FACTOR_10)

(* Lines 310 and 324-326, s being what the sign test returned *)
AngleDigits(s) ==
  [charIndexes |-> <<s.sign, AngleTens(s.nextAngle), AngleUnits(s.nextAngle),
                     INDEX_DOT, AngleTenths(s.nextAngle), INDEX_DEG>>,
   nextAngle |-> s.nextAngle]

(* Lines 310 and 317-326: the six glyph indexes of the angle, and the value *)
(* left in _nextAngle                                                       *)
AngleCharIndexes(angle) == AngleDigits(AngleSign(angle))

(* The innermost loop reading the upper page of the glyph for both pages *)
RECURSIVE ColumnLoop_UpperPageOnly(_, _, _, _)
ColumnLoop_UpperPageOnly(indexes, page, character, column) ==
  IF column >= VERDANA_CHAR_WIDTH
  THEN <<>>
  ELSE <<FontByte(indexes[character + 1], column)>>
       \o ColumnLoop_UpperPageOnly(indexes, page, character, column + 1)

(* Lines 329-336: the three nested loops.  Each operator gives the bytes   *)
(* the iterator writes, in order, from the given loop counters on.          *)
RECURSIVE ColumnLoop(_, _, _, _)
ColumnLoop(indexes, page, character, column) ==
  IF column >= VERDANA_CHAR_WIDTH
  THEN <<>>
  ELSE <<FontByte(indexes[character + 1], (VERDANA_CHAR_WIDTH * page) + column)>>
       \o ColumnLoop(indexes, page, character, column + 1)

RECURSIVE CharacterLoop(_, _, _)
CharacterLoop(indexes, page, character) ==
  IF character >= ANGLE_NB_CHARS
  THEN <<>>
  ELSE ColumnLoop(indexes, page, character, 0)
       \o CharacterLoop(indexes, page, character + 1)

RECURSIVE PageLoop(_, _)
PageLoop(indexes, page) ==
  IF page >= VERDANA_NB_PAGES
  THEN <<>>
  ELSE CharacterLoop(indexes, page, 0) \o PageLoop(indexes, page + 1)

(* The write through the iterator leaving the byte as it is where the glyph *)
(* byte is zero                                                             *)
Overwrite_ZeroKeepsByte(buffer, out) ==
  [i \in 1..Len(buffer) |->
     IF (i <= Len(out)) /\ (out[i] # 0) THEN out[i] ELSE buffer[i]]

(* The buffer once the iterator has written out from _screenBuffer[0] on *)
Overwrite(buffer, out) == out \o SubSeq(buffer, Len(out) + 1, Len(buffer))

FillScreenBuffer(buffer, indexes) == Overwrite(buffer, PageLoop(indexes, 0))

(* stPrintingAngle.  Its outcome is a record: the context after, the result *)
(* and the new values of the driver's variables; launched tells whether the *)
(* DMA request was accepted.  base holds the values left by lines 310-336.  *)

(* Lines 359-366 without the test of HALresult *)
PrintingAngleDmaRequested_Unchecked(hw, base) ==
  [base EXCEPT !.hw = hw, !.state = ST_WAITING_FOR_TX_DONE,
               !.screenTimer_ms = SPI_TIMEOUT_MS,
               !.launched = (hw.hal = HAL_OK)]

(* Lines 359-366, hw being the context after HAL_SPI_Transmit_DMA *)
PrintingAngleDmaRequested(hw, base) ==
  IF hw.hal # HAL_OK
  THEN [base EXCEPT !.hw = hw, !.state = ST_IDLE,
                    !.screenTimer_ms = SPI_TIMEOUT_MS,
                    !.result = createErrorCodeLayer1("PRINTING_ANGLE", 3, hw.hal,
                                                     "ERR_ERROR")]
  ELSE [base EXCEPT !.hw = hw, !.state = ST_WAITING_FOR_TX_DONE,
                    !.screenTimer_ms = SPI_TIMEOUT_MS,
                    !.launched = TRUE]

(* Lines 347-366.  The value the PAGE_ADDRESS command returned (r) was not  *)
(* assigned: result still holds what the COLUMN_ADDRESS command returned.   *)
PrintingAnglePagesSent(result, r, oracle, base) ==
  IF IS_ERROR(result)
  THEN [base EXCEPT !.hw = r.hw, !.state = ST_IDLE,
                    !.result = pushErrorCode(result, "PRINTING_ANGLE", 2)]
  ELSE PrintingAngleDmaRequested(
         HAL_SPI_Transmit_DMA(SSD1306_ENABLE_SPI(SSD1306_SET_DATA(r.hw)), oracle,
           SubSeq(base.screenBuffer, 1, ANGLE_NB_CHARS * VERDANA_NB_BYTES_CHAR)),
         base)

(* Lines 340-366 with the state left as it is when the command failed *)
PrintingAngleColumnsSent_StateKept(r, oracle, limitPages, base) ==
  IF IS_ERROR(r.result)
  THEN [base EXCEPT !.hw = r.hw,
                    !.result = pushErrorCode(r.result, "PRINTING_ANGLE", 1)]
  ELSE PrintingAnglePagesSent(r.result,
         SSD1306sendCommand(r.hw, oracle, "PAGE_ADDRESS", limitPages, 2),
         oracle, base)

(* Lines 340-366, r being what the COLUMN_ADDRESS command returned *)
PrintingAngleColumnsSent(r, oracle, limitPages, base) ==
  IF IS_ERROR(r.result)
  THEN [base EXCEPT !.hw = r.hw, !.state = ST_IDLE,
                    !.result = pushErrorCode(r.result, "PRINTING_ANGLE", 1)]
  ELSE PrintingAnglePagesSent(r.result,
         SSD1306sendCommand(r.hw, oracle, "PAGE_ADDRESS", limitPages, 2),
         oracle, base)

(* Lines 310-336 with the two limit arrays read after the loops, which have *)
(* left their final counts in _nextPage and _nextColumn                     *)
PrintingAngleLocals_LimitsAfterLoops(idx, page, column, buffer, timer) ==
  [limitColumns |-> <<VERDANA_CHAR_WIDTH,
                      ToUint8(VERDANA_CHAR_WIDTH + (VERDANA_CHAR_WIDTH * 6) - 1)>>,
   limitPages |-> <<VERDANA_NB_PAGES, ToUint8(VERDANA_NB_PAGES + 1)>>,
   base |-> [hw |-> "NONE", result |-> ERR_SUCCESS, state |-> ST_PRINTING_ANGLE,
             nextAngle |-> idx.nextAngle, nextPage |-> VERDANA_NB_PAGES,
             nextColumn |-> VERDANA_CHAR_WIDTH,
             screenBuffer |-> FillScreenBuffer(buffer, idx.charIndexes),
             screenTimer_ms |-> timer, charIndexes |-> idx.charIndexes,
             launched |-> FALSE]]

(* Lines 310-336: what stPrintingAngle computes before it touches the bus: *)
(* its two limit arrays, read from the latched request on entry, and the   *)
(* values left in the driver's variables by the sign test, the digit       *)
(* extraction and the three loops (whose counters are _nextPage and        *)
(* _nextColumn).  idx is what AngleCharIndexes returned.                   *)
PrintingAngleLocals(idx, page, column, buffer, timer) ==
  [limitColumns |-> <<column, ToUint8(column + (VERDANA_CHAR_WIDTH * 6) - 1)>>,
   limitPages |-> <<page, ToUint8(page + 1)>>,
   base |-> [hw |-> "NONE", result |-> ERR_SUCCESS, state |-> ST_PRINTING_ANGLE,
             nextAngle |-> idx.nextAngle, nextPage |-> VERDANA_NB_PAGES,
             nextColumn |-> VERDANA_CHAR_WIDTH,
             screenBuffer |-> FillScreenBuffer(buffer, idx.charIndexes),
             screenTimer_ms |-> timer, charIndexes |-> idx.charIndexes,
             launched |-> FALSE]]

(* Lines 338-366: the bus traffic of stPrintingAngle, given its locals *)
PrintingAngleSend(hw, oracle, locals) ==
  PrintingAngleColumnsSent(
    SSD1306sendCommand(hw, oracle, "COLUMN_ADDRESS", locals.limitColumns, 2),
    oracle, locals.limitPages, locals.base)

(* stWaitingForTXdone without the abort of the transfer on timeout *)
stWaitingForTXdone_NoDmaStop(hw, timer) ==
  IF timer = 0
  THEN [hw |-> SSD1306_DISABLE_SPI(hw),
        state |-> ST_IDLE, retired |-> TRUE,
        result |-> createErrorCode("WAITING_DMA_RDY", 1, "ERR_ERROR")]
  ELSE IF HAL_SPI_GetState(hw) # HAL_SPI_STATE_READY
  THEN [hw |-> hw, state |-> ST_WAITING_FOR_TX_DONE, retired |-> FALSE,
        result |-> ERR_SUCCESS]
  ELSE [hw |-> SSD1306_DISABLE_SPI(hw), state |-> ST_IDLE, retired |-> TRUE,
        result |-> ERR_SUCCESS]

(* stWaitingForTXdone with the state left as it is on timeout *)
stWaitingForTXdone_StateKept(hw, timer) ==
  IF timer = 0
  THEN [hw |-> HAL_SPI_DMAStop(SSD1306_DISABLE_SPI(hw)),
        state |-> ST_WAITING_FOR_TX_DONE, retired |-> FALSE,
        result |-> createErrorCode("WAITING_DMA_RDY", 1, "ERR_ERROR")]
  ELSE IF HAL_SPI_GetState(hw) # HAL_SPI_STATE_READY
  THEN [hw |-> hw, state |-> ST_WAITING_FOR_TX_DONE, retired |-> FALSE,
        result |-> ERR_SUCCESS]
  ELSE [hw |-> SSD1306_DISABLE_SPI(hw), state |-> ST_IDLE, retired |-> TRUE,
        result |-> ERR_SUCCESS]

(* stWaitingForTXdone leaving the wait without looking at the peripheral *)
stWaitingForTXdone_SpiNotTested(hw, timer) ==
  IF timer = 0
  THEN [hw |-> HAL_SPI_DMAStop(SSD1306_DISABLE_SPI(hw)),
        state |-> ST_IDLE, retired |-> TRUE,
        result |-> createErrorCode("WAITING_DMA_RDY", 1, "ERR_ERROR")]
  ELSE [hw |-> SSD1306_DISABLE_SPI(hw), state |-> ST_IDLE, retired |-> TRUE,
        result |-> ERR_SUCCESS]

(* stWaitingForTXdone without the test of the deadline *)
stWaitingForTXdone_NoDeadline(hw, timer) ==
  IF HAL_SPI_GetState(hw) # HAL_SPI_STATE_READY
  THEN [hw |-> hw, state |-> ST_WAITING_FOR_TX_DONE, retired |-> FALSE,
        result |-> ERR_SUCCESS]
  ELSE [hw |-> SSD1306_DISABLE_SPI(hw), state |-> ST_IDLE, retired |-> TRUE,
        result |-> ERR_SUCCESS]

(* stWaitingForTXdone.  retired tells whether the handler left the wait     *)
(* (transfer seen complete, or aborted on timeout).                         *)
stWaitingForTXdone(hw, timer) ==
  IF timer = 0
  THEN [hw |-> HAL_SPI_DMAStop(SSD1306_DISABLE_SPI(hw)),
        state |-> ST_IDLE, retired |-> TRUE,
        result |-> createErrorCode("WAITING_DMA_RDY", 1, "ERR_ERROR")]
  ELSE IF HAL_SPI_GetState(hw) # HAL_SPI_STATE_READY
  THEN [hw |-> hw, state |-> ST_WAITING_FOR_TX_DONE, retired |-> FALSE,
        result |-> ERR_SUCCESS]
  ELSE [hw |-> SSD1306_DISABLE_SPI(hw), state |-> ST_IDLE, retired |-> TRUE,
        result |-> ERR_SUCCESS]

----------------------------------------------------------------------------
(* State *)

VARIABLES
  SSD_SPIhandle,    \* _SSD_SPIhandle: "NULL" until SSD1306initialise stores the handle
  state,            \* _state: the handler SSD1306update will run
  screenBuffer,     \* _screenBuffer[0..131]
  nextAngle,        \* _nextAngle, in hundredths of a degree
  nextPage,         \* _nextPage
  nextColumn,       \* _nextColumn
  screenTimer_ms,   \* screenTimer_ms, decremented by the millisecond tick
  pinCS,            \* level of the chip select line (GPIO_PIN_RESET = asserted)
  pinDC,            \* level of the data/command line (GPIO_PIN_SET = data)
  pinRST,           \* level of the reset line
  spiState,         \* HAL state of the SPI peripheral
  bus,              \* pin writes and SPI requests of the last step, in order
  lastCall,         \* the last step taken: function and arguments
  lastResult,       \* the errorCode_u the last step returned (ERR_SUCCESS if none)
  charIndexes,      \* charIndexes[] as computed by the last stPrintingAngle
  dmaOutstanding,   \* a DMA launched by the driver has not been retired by update
  ticks,            \* millisecond ticks since the deadline was last set (saturating)
  timeouts          \* DMA timeouts returned since the last accepted request

vars == <<SSD_SPIhandle, state, screenBuffer, nextAngle, nextPage, nextColumn,
          screenTimer_ms, pinCS, pinDC, pinRST, spiState, bus, lastCall,
          lastResult, charIndexes, dmaOutstanding, ticks, timeouts>>

driverVars == <<SSD_SPIhandle, state, screenBuffer, nextAngle, nextPage,
                nextColumn, screenTimer_ms>>
pinVars == <<pinCS, pinDC, pinRST>>

----------------------------------------------------------------------------
(* Bounds and inputs of the model *)

(* ticks stops counting here; it starts there, no deadline having been set *)
MaxTicks == 12

(* Requests tried for SSD1306_printAngle, <<angle, page, column>> with the  *)
(* angle in hundredths of a degree: the angles at and around the limits of *)
(* the accepted range and two ordinary ones, then the pages and the        *)
(* columns at and around the limits of the screen and of their 8-bit type  *)
RequestInputs ==
  {<<a, 2, 10>> : a \in {-9001, -9000, -3, 1230, 9000, 9001}}
    \cup {<<1230, p, 10>> : p \in {0, 6, 7, 255}}
    \cup {<<1230, 2, c>> : c \in {0, 61, 62, 255}}

(* Every angle of [-90.00, +90.00] *)
AllAngles == MIN_ANGLE_DEG..MAX_ANGLE_DEG

(* Answers of the HAL to the SPI requests of one stPrintingAngle: two for   *)
(* each of the two commands, one for the DMA request                        *)
RenderOracles == [1..5 -> HAL_StatusTypeDef]

(* Answers of the HAL to the SPI requests of one SSD1306initialise.  The    *)
(* function returns at the first request that fails, so the answers after   *)
(* the first failure are never read: f is the ordinal of the first failure, *)
(* 0 when none fails.                                                       *)
(* There are at most 18 requests: 8 command bytes and 5 parameters for the  *)
(* registers, 2 commands with their parameters and 1 data transfer for the  *)
(* clear.                                                                   *)
InitRequests == NB_INIT_REGISERS + 5 + 2 + 2 + 1
InitOracles ==
  {[k \in 1..InitRequests |-> IF k = f THEN "HAL_ERROR" ELSE HAL_OK] : f \in 0..InitRequests}

Call(fn, angle, page, column) ==
  [fn |-> fn, angle |-> angle, page |-> page, column |-> column]

(* The hardware context at the start of a call *)
Hw == [CS |-> pinCS, DC |-> pinDC, RST |-> pinRST, spi |-> spiState,
       bus |-> <<>>, k |-> 1, hal |-> HAL_OK]

(* The hardware after a call that ended with context h *)
HwAfter(h) ==
  /\ pinCS' = h.CS
  /\ pinDC' = h.DC
  /\ pinRST' = h.RST
  /\ spiState' = h.spi
  /\ bus' = h.bus

----------------------------------------------------------------------------
(* Initial state: the program before main calls SSD1306initialise.  The     *)
(* static variables hold their initialisers (lines 87-93); the levels of    *)
(* the three lines are whatever the board's GPIO set-up left.               *)

Init ==
  /\ SSD_SPIhandle = "NULL"
  /\ state = ST_IDLE
  /\ screenBuffer = [i \in 1..(ANGLE_NB_CHARS * VERDANA_NB_BYTES_CHAR) |-> 0]
  /\ nextAngle = 0
  /\ nextPage = 0
  /\ nextColumn = 0
  /\ screenTimer_ms = 0
  /\ pinCS \in GPIO_PinState
  /\ pinDC \in GPIO_PinState
  /\ pinRST \in GPIO_PinState
  /\ spiState = HAL_SPI_STATE_READY
  /\ bus = <<>>
  /\ lastCall = Call("reset", 0, 0, 0)
  /\ lastResult = ERR_SUCCESS
  /\ charIndexes = <<>>
  /\ dmaOutstanding = FALSE
  /\ ticks = MaxTicks
  /\ timeouts = 0

----------------------------------------------------------------------------
(* Actions.  The driver's functions other than SSD1306initialise are called *)
(* once the handle is stored (main initialises the screen before its loop). *)

(* SSD1306initialise(handle) *)
Initialise ==
  \E oracle \in InitOracles :
    \E r \in {SSD1306initialise(Hw, oracle, screenBuffer)} :
        /\ SSD_SPIhandle' = "hspi"
        /\ HwAfter(r.hw)
        /\ lastCall' = Call("SSD1306initialise", 0, 0, 0)
        /\ lastResult' = r.result
        /\ UNCHANGED <<state, screenBuffer, nextAngle, nextPage, nextColumn,
                       screenTimer_ms, charIndexes, dmaOutstanding, ticks,
                       timeouts>>

(* SSD1306_printAngle(angle, page, column) *)
PrintAngleWith(angle, page, column) ==
  \E r \in {SSD1306_printAngle(angle, page, column, state, nextAngle, nextPage,
                                nextColumn)} :
      /\ SSD_SPIhandle # "NULL"
      /\ state' = r.state
      /\ nextAngle' = r.nextAngle
      /\ nextPage' = r.nextPage
      /\ nextColumn' = r.nextColumn
      /\ bus' = <<>>
      /\ lastCall' = Call("SSD1306_printAngle", angle, page, column)
      /\ lastResult' = r.result
      /\ timeouts' = IF r.result = ERR_SUCCESS THEN 0 ELSE timeouts
      /\ UNCHANGED <<SSD_SPIhandle, screenBuffer, screenTimer_ms, pinVars,
                     spiState, charIndexes, dmaOutstanding, ticks>>

PrintAngle ==
  \E request \in RequestInputs : PrintAngleWith(request[1], request[2], request[3])

(* SSD1306update() while _state = stIdle *)
UpdateIdle ==
  /\ SSD_SPIhandle # "NULL"
  /\ state = ST_IDLE
  /\ bus' = <<>>
  /\ lastCall' = Call("SSD1306update", 0, 0, 0)
  /\ lastResult' = ERR_SUCCESS
  /\ UNCHANGED <<driverVars, pinVars, spiState, charIndexes, dmaOutstanding,
                 ticks, timeouts>>

(* SSD1306update() while _state = stPrintingAngle: lines 309-367 *)
UpdatePrintingAngle ==
  /\ SSD_SPIhandle # "NULL"
  /\ state = ST_PRINTING_ANGLE
  /\ \E locals \in {PrintingAngleLocals(AngleCharIndexes(nextAngle), nextPage,
                                         nextColumn, screenBuffer, screenTimer_ms)} :
     \E oracle \in RenderOracles :
       \E r \in {PrintingAngleSend(Hw, oracle, locals)} :
           /\ HwAfter(r.hw)
           /\ state' = r.state
           /\ nextAngle' = r.nextAngle
           /\ nextPage' = r.nextPage
           /\ nextColumn' = r.nextColumn
           /\ screenBuffer' = r.screenBuffer
           /\ screenTimer_ms' = r.screenTimer_ms
           /\ charIndexes' = r.charIndexes
           /\ lastCall' = Call("SSD1306update", 0, 0, 0)
           /\ lastResult' = r.result
           /\ dmaOutstanding' = (dmaOutstanding \/ r.launched)
           /\ ticks' = IF r.screenTimer_ms # screenTimer_ms \/ r.launched THEN 0 ELSE ticks
           /\ UNCHANGED <<SSD_SPIhandle, timeouts>>

(* SSD1306update() while _state = stWaitingForTXdone *)
UpdateWaitingForTXdone ==
  /\ SSD_SPIhandle # "NULL"
  /\ state = ST_WAITING_FOR_TX_DONE
  /\ \E r \in {stWaitingForTXdone(Hw, screenTimer_ms)} :
         /\ HwAfter(r.hw)
         /\ state' = r.state
         /\ lastCall' = Call("SSD1306update", 0, 0, 0)
         /\ lastResult' = r.result
         /\ dmaOutstanding' = (dmaOutstanding /\ ~r.retired)
         /\ timeouts' = IF IS_ERROR(r.result) THEN timeouts + 1 ELSE timeouts
         /\ UNCHANGED <<SSD_SPIhandle, screenBuffer, nextAngle, nextPage,
                        nextColumn, screenTimer_ms, charIndexes, ticks>>

SSD1306update == UpdateIdle \/ UpdatePrintingAngle \/ UpdateWaitingForTXdone

(* The millisecond tick: decrements screenTimer_ms toward zero *)
Tick ==
  /\ SSD_SPIhandle # "NULL"
  /\ screenTimer_ms' = IF screenTimer_ms > 0 THEN screenTimer_ms - 1 ELSE 0
  /\ ticks' = IF ticks < MaxTicks THEN ticks + 1 ELSE ticks
  /\ bus' = <<>>
  /\ lastCall' = Call("SysTick_Handler", 0, 0, 0)
  /\ lastResult' = ERR_SUCCESS
  /\ UNCHANGED <<SSD_SPIhandle, state, screenBuffer, nextAngle, nextPage,
                 nextColumn, pinVars, spiState, charIndexes, dmaOutstanding,
                 timeouts>>

(* The DMA transfer in flight ends: the peripheral is ready again *)
DmaComplete ==
  /\ spiState = HAL_SPI_STATE_BUSY_TX
  /\ spiState' = HAL_SPI_STATE_READY
  /\ bus' = <<>>
  /\ lastCall' = Call("DMA_TransferComplete", 0, 0, 0)
  /\ lastResult' = ERR_SUCCESS
  /\ UNCHANGED <<driverVars, pinVars, charIndexes, dmaOutstanding, ticks,
                 timeouts>>

(* main calls SSD1306initialise once, before anything else *)
InitialiseFirst == (SSD_SPIhandle = "NULL") /\ Initialise

----------------------------------------------------------------------------
(* Spec: the driver initialised once, then any interleaving of requests     *)
(* (made whether or not the screen is ready), updates, millisecond ticks    *)
(* and DMA completions, for every answer of the HAL.                        *)

Next == InitialiseFirst \/ PrintAngle \/ SSD1306update \/ Tick \/ DmaComplete

Spec == Init /\ [][Next]_vars

----------------------------------------------------------------------------
(* SpecGated: as Spec, for a caller that keeps to the driver's contract: it *)
(* requests an angle only when isScreenReady() returns true.                *)

PrintAngleWhenReady == isScreenReady(state) /\ PrintAngle

NextGated ==
  InitialiseFirst \/ PrintAngleWhenReady \/ SSD1306update \/ Tick \/ DmaComplete

SpecGated == Init /\ [][NextGated]_vars

----------------------------------------------------------------------------
(* SpecFair: SpecGated for a main loop that never stops: SSD1306update      *)
(* keeps being called and the millisecond tick keeps coming.  Nothing is    *)
(* asked of the SPI peripheral: each request of a render succeeds or fails, *)
(* and a transfer that was launched may complete or never do so.            *)
(* The fairness of the update is stated handler by handler (none is needed  *)
(* for stIdle, which changes nothing).  For stPrintingAngle it is weak      *)
(* fairness written out: the handler can run whenever it is the current     *)
(* state, every run of it changes _state, and a step of NextGated that is a *)
(* call of SSD1306update made in that state is a run of it.                 *)

RenderEnabled == (SSD_SPIhandle # "NULL") /\ (state = ST_PRINTING_ANGLE)

RenderCalled == RenderEnabled /\ (lastCall'.fn = "SSD1306update")

SpecFair ==
  /\ Init
  /\ [][NextGated]_vars
  /\ WF_vars(Tick)
  /\ WF_vars(UpdateWaitingForTXdone)
  /\ ([]<>(~RenderEnabled) \/ []<><<RenderCalled>>_vars)

----------------------------------------------------------------------------
(* SpecValid: as SpecGated, the caller moreover requesting only angles of   *)
(* [-90, +90] at pages of [0, 6] and columns of [0, 61].                    *)

ValidRequests ==
  {request \in RequestInputs :
     /\ request[1] \in MIN_ANGLE_DEG..MAX_ANGLE_DEG
     /\ request[2] \in 0..6
     /\ request[3] \in 0..61}

PrintAngleValid ==
  /\ isScreenReady(state)
  /\ \E request \in ValidRequests : PrintAngleWith(request[1], request[2], request[3])

NextValid ==
  InitialiseFirst \/ PrintAngleValid \/ SSD1306update \/ Tick \/ DmaComplete

SpecValid == Init /\ [][NextValid]_vars

----------------------------------------------------------------------------
(* SpecStall: the super-loop of a contract-keeping caller when no DMA       *)
(* transfer ever completes: SSD1306update runs once after every millisecond *)
(* tick, and a request, if any, follows the update.                         *)

StallTick == (lastCall.fn # "SysTick_Handler") /\ Tick
StallUpdate == (lastCall.fn = "SysTick_Handler") /\ SSD1306update
StallPrintAngle == (lastCall.fn = "SSD1306update") /\ PrintAngleWhenReady

NextStall == InitialiseFirst \/ StallTick \/ StallUpdate \/ StallPrintAngle

SpecStall == Init /\ [][NextStall]_vars

----------------------------------------------------------------------------
(* SpecAngles: the rendering of every angle of [-90.00, +90.00].  It starts *)
(* where the driver is once SSD1306initialise has succeeded and the first   *)
(* request, for that angle at page 2 and column 10, has been accepted; its  *)
(* one step is the SSD1306update that renders the request.                  *)

InitAngles ==
  /\ SSD_SPIhandle = "hspi"
  /\ state = ST_PRINTING_ANGLE
  /\ screenBuffer = [i \in 1..(ANGLE_NB_CHARS * VERDANA_NB_BYTES_CHAR) |-> 0]
  /\ nextAngle \in AllAngles
  /\ nextPage = 2
  /\ nextColumn = 10
  /\ screenTimer_ms = 0
  /\ pinCS = GPIO_PIN_SET
  /\ pinDC = GPIO_PIN_SET
  /\ pinRST = GPIO_PIN_SET
  /\ spiState = HAL_SPI_STATE_READY
  /\ bus = <<>>
  /\ lastCall = Call("SSD1306_printAngle", nextAngle, 2, 10)
  /\ lastResult = ERR_SUCCESS
  /\ charIndexes = <<>>
  /\ dmaOutstanding = FALSE
  /\ ticks = MaxTicks
  /\ timeouts = 0

NextAngles == UpdatePrintingAngle

SpecAngles == InitAngles /\ [][NextAngles]_vars

----------------------------------------------------------------------------
(* SpecReinit: as SpecValid, the application moreover calling               *)
(* SSD1306initialise again whenever the screen is ready.                    *)

InitialiseWhenReady == isScreenReady(state) /\ Initialise

NextReinit ==
  InitialiseWhenReady \/ PrintAngleValid \/ SSD1306update \/ Tick \/ DmaComplete

SpecReinit == Init /\ [][NextReinit]_vars

----------------------------------------------------------------------------
(* SpecTransport: SSD1306sendCommand and SSD1306sendData on their own,      *)
(* called with every number of parameters up to one above the maximum, a    *)
(* null or non-null array, sizes at and around the limits, every answer of  *)
(* the HAL, and the lines at either level on entry.                         *)

ParameterCounts == 0..(MAX_PARAMETERS + 1)
DataSizes == {0, 1, MAX_DATA_SIZE, MAX_DATA_SIZE + 1}
TransportOracles == [1..2 -> HAL_StatusTypeDef]

(* The call of a transport function: its arguments (array = FALSE for a     *)
(* null pointer) and the level of CS on entry                               *)
TransportCall(fn, array, count) ==
  [fn |-> fn, array |-> array, count |-> count, csOnEntry |-> pinCS]

TransportReturns(fn, array, count, r) ==
  /\ HwAfter(r.hw)
  /\ lastCall' = TransportCall(fn, array, count)
  /\ lastResult' = r.result
  /\ UNCHANGED <<driverVars, charIndexes, dmaOutstanding, ticks, timeouts>>

(* SSD1306sendCommand(COLUMN_ADDRESS, parameters, nbParameters) *)
SendCommandCall ==
  \E nbParameters \in ParameterCounts, array \in BOOLEAN, oracle \in TransportOracles :
    \E r \in {SSD1306sendCommand(Hw, oracle, "COLUMN_ADDRESS",
                IF array THEN [i \in 1..nbParameters |-> i] ELSE <<>>,
                nbParameters)} :
      TransportReturns("SSD1306sendCommand", array, nbParameters, r)

(* SSD1306sendData(values, size) *)
SendDataCall ==
  \E size \in DataSizes, array \in BOOLEAN, oracle \in TransportOracles :
    \E r \in {SSD1306sendData(Hw, oracle,
                IF array THEN [i \in 1..size |-> i % UINT8_MOD] ELSE <<>>,
                size)} :
      TransportReturns("SSD1306sendData", array, size, r)

InitTransport ==
  /\ SSD_SPIhandle = "hspi"
  /\ state = ST_IDLE
  /\ screenBuffer = [i \in 1..(ANGLE_NB_CHARS * VERDANA_NB_BYTES_CHAR) |-> 0]
  /\ nextAngle = 0
  /\ nextPage = 0
  /\ nextColumn = 0
  /\ screenTimer_ms = 0
  /\ pinCS \in GPIO_PinState
  /\ pinDC \in GPIO_PinState
  /\ pinRST = GPIO_PIN_SET
  /\ spiState = HAL_SPI_STATE_READY
  /\ bus = <<>>
  /\ lastCall = Call("reset", 0, 0, 0)
  /\ lastResult = ERR_SUCCESS
  /\ charIndexes = <<>>
  /\ dmaOutstanding = FALSE
  /\ ticks = MaxTicks
  /\ timeouts = 0

NextTransport == SendCommandCall \/ SendDataCall

SpecTransport == InitTransport /\ [][NextTransport]_vars

----------------------------------------------------------------------------
(* Vocabulary of the properties *)

IsCall(fn) == lastCall.fn = fn

Initialised == SSD_SPIhandle # "NULL"

IsSpiRequest(e) == e.ev \in {"transmit", "transmit_dma"}

DmaTimeout == createErrorCode("WAITING_DMA_RDY", 1, "ERR_ERROR")

(* A DMA transfer is outstanding exactly when the driver waits for one *)
DmaIffWaiting == dmaOutstanding <=> (state = ST_WAITING_FOR_TX_DONE)

(* The step is a call of SSD1306_printAngle made while the screen is busy *)
UngatedPrintStep == (lastCall'.fn = "SSD1306_printAngle") /\ ~isScreenReady(state)

----------------------------------------------------------------------------
(* Properties *)

(* C1: once the driver is initialised, the chip select is deasserted in     *)
(* every state in which the driver is idle.                                 *)
C1_CsDeassertedWhenIdle ==
  (Initialised /\ state = ST_IDLE) => (pinCS = GPIO_PIN_SET)

(* C2, as stated: in every reachable state, whatever the interleaving of    *)
(* requests and updates, a DMA transfer is outstanding iff the driver is in *)
(* stWaitingForTXdone.                                                      *)
C2_DmaIffWaitingAlways == DmaIffWaiting

(* C2, amended: "outstanding iff waiting" holds initially and is kept by    *)
(* every step except a SSD1306_printAngle made while isScreenReady() is     *)
(* false; so it holds throughout for a caller that requests only when ready.*)
C2_DmaIffWaitingWhenGated ==
  [][(DmaIffWaiting /\ ~UngatedPrintStep) => DmaIffWaiting']_vars

C2_Witness ==
  /\ IsCall("SSD1306update")
  /\ dmaOutstanding
  /\ state = ST_WAITING_FOR_TX_DONE
  /\ spiState = HAL_SPI_STATE_BUSY_TX

(* C3: for a caller that initialises once and requests only when ready, no  *)
(* SPI request (blocking or DMA) is made while a DMA transfer is in flight. *)
C3_NoOverlap ==
  \A i \in 1..Len(bus) : IsSpiRequest(bus[i]) => ~bus[i].busy

(* a render tick that sent its two commands and launched its DMA *)
C3_Witness ==
  /\ IsCall("SSD1306update")
  /\ state = ST_WAITING_FOR_TX_DONE
  /\ timeouts = 0
  /\ ticks = 0
  /\ Len(SelectSeq(bus, IsSpiRequest)) = 5
  /\ bus[Len(bus)].ev = "transmit_dma"
  /\ bus[Len(bus)].status = HAL_OK
  /\ bus[Len(bus)].bytes # [i \in 1..(ANGLE_NB_CHARS * VERDANA_NB_BYTES_CHAR) |-> 0]

(* C4: when the DMA never completes and update runs on every tick, update   *)
(* returns the timeout error exactly once per transfer, at the 10th tick    *)
(* after the launch, and that call stops the DMA, deasserts the chip select *)
(* and returns to idle; the updates that follow return success.             *)
C4_StateAfterUpdate ==
  /\ timeouts <= 1
  /\ (IsCall("SSD1306update") /\ dmaOutstanding) => (ticks < SPI_TIMEOUT_MS)
  /\ (IsCall("SSD1306update") /\ lastResult = DmaTimeout) =>
       /\ ticks <= SPI_TIMEOUT_MS
       /\ timeouts = 1
       /\ state = ST_IDLE
       /\ pinCS = GPIO_PIN_SET
       /\ spiState = HAL_SPI_STATE_READY
       /\ ~dmaOutstanding
       /\ \E i \in 1..Len(bus) : bus[i].ev = "dma_stop"
  /\ (IsCall("SSD1306update") /\ timeouts = 1 /\ lastResult # DmaTimeout) =>
       (lastResult = ERR_SUCCESS /\ state = ST_IDLE)

C4_StallTimesOutOnce ==
  /\ []C4_StateAfterUpdate
  /\ [][(dmaOutstanding /\ ~dmaOutstanding') =>
          (lastCall'.fn = "SSD1306update" /\ lastResult' = DmaTimeout
             /\ timeouts = 0 /\ timeouts' = 1)]_vars

C4_Witness ==
  /\ IsCall("SSD1306update")
  /\ lastResult = DmaTimeout
  /\ ticks = SPI_TIMEOUT_MS
  /\ timeouts = 1

(* C5: an update that returns an error leaves the driver idle, so that      *)
(* isScreenReady() is true right after it.                                  *)
C5_ErrorLeavesIdle ==
  (IsCall("SSD1306update") /\ IS_ERROR(lastResult)) =>
    (state = ST_IDLE /\ isScreenReady(state))

C5_Witness ==
  /\ IsCall("SSD1306update")
  /\ IS_ERROR(lastResult)
  /\ lastResult.stack[1] = <<"PRINTING_ANGLE", 3>>
  /\ state = ST_IDLE

(* The step is a call of SSD1306_printAngle *)
PrintAngleStep == lastCall'.fn = "SSD1306_printAngle"

AngleOutOfRange == createErrorCode("PRT_ANGLE", 1, "ERR_WARNING")

(* C6: SSD1306_printAngle with an angle below -90 or above +90 returns the  *)
(* AngleOutOfRange warning, leaves the state, the latched request and the   *)
(* lines as they are and makes no SPI traffic; any other angle, -90 and +90 *)
(* included, is accepted: the state becomes stPrintingAngle and exactly the *)
(* given angle, page and column are latched.                                *)
C6_AngleRangeChecked ==
  [][PrintAngleStep =>
       IF (lastCall'.angle < MIN_ANGLE_DEG) \/ (lastCall'.angle > MAX_ANGLE_DEG)
       THEN /\ lastResult' = AngleOutOfRange
            /\ UNCHANGED <<driverVars, pinVars, spiState>>
            /\ bus' = <<>>
       ELSE /\ lastResult' = ERR_SUCCESS
            /\ state' = ST_PRINTING_ANGLE
            /\ nextAngle' = lastCall'.angle
            /\ nextPage' = lastCall'.page
            /\ nextColumn' = lastCall'.column
            /\ bus' = <<>>]_vars

(* +90.01 refused while the accepted request for +90.00 awaits rendering *)
C6_Witness ==
  /\ IsCall("SSD1306_printAngle")
  /\ lastCall.angle = MAX_ANGLE_DEG + 1
  /\ lastResult = AngleOutOfRange
  /\ state = ST_PRINTING_ANGLE
  /\ nextAngle = MAX_ANGLE_DEG

(* The 2-byte parameter sent after the command byte reg, if bus[i] is it *)
IsWindowOf(reg, i) ==
  /\ i > 1
  /\ bus[i].ev = "transmit"
  /\ Len(bus[i].bytes) = 2
  /\ bus[i - 1].ev = "transmit"
  /\ bus[i - 1].bytes = <<reg>>

(* C7: SSD1306_printAngle accepts a request only when its page is in [0,6]  *)
(* and its column in [0,61]; so the window sent by the render tick is       *)
(* COLUMN_ADDRESS [column, column+65] with column+65 <= 127 and             *)
(* PAGE_ADDRESS [page, page+1] with page+1 <= 7, without 8-bit wrap.        *)
C7_OnScreenRequestsOnly ==
  /\ (IsCall("SSD1306_printAngle") /\ lastResult = ERR_SUCCESS) =>
       (lastCall.page \in 0..6 /\ lastCall.column \in 0..61)
  /\ IsCall("SSD1306update") =>
       \A i \in 1..Len(bus) :
         /\ IsWindowOf("COLUMN_ADDRESS", i) =>
              /\ bus[i].bytes[2] = bus[i].bytes[1] + (ANGLE_NB_CHARS * VERDANA_CHAR_WIDTH) - 1
              /\ bus[i].bytes[2] <= 127
         /\ IsWindowOf("PAGE_ADDRESS", i) =>
              /\ bus[i].bytes[2] = bus[i].bytes[1] + 1
              /\ bus[i].bytes[2] <= 7

(* What is expected on the bus of SSD1306initialise *)
ExpectedPin(pin, level) ==
  [ev |-> "gpio", pin |-> pin, level |-> level, dc |-> "NONE", bytes |-> <<>>]

ExpectedTransmit(dc, bytes) ==
  [ev |-> "transmit", pin |-> "NONE", level |-> "NONE", dc |-> dc, bytes |-> bytes]

ExpectedCommand(reg, parameters) ==
  << ExpectedPin("DC", GPIO_PIN_RESET), ExpectedPin("CS", GPIO_PIN_RESET),
     ExpectedTransmit(GPIO_PIN_RESET, <<reg>>) >>
    \o (IF Len(parameters) = 0
        THEN <<>>
        ELSE <<ExpectedTransmit(GPIO_PIN_RESET, parameters)>>)
    \o << ExpectedPin("CS", GPIO_PIN_SET) >>

ExpectedData(bytes) ==
  << ExpectedPin("DC", GPIO_PIN_SET), ExpectedPin("CS", GPIO_PIN_RESET),
     ExpectedTransmit(GPIO_PIN_SET, bytes), ExpectedPin("CS", GPIO_PIN_SET) >>

ExpectedInitialise ==
  << ExpectedPin("CS", GPIO_PIN_SET), ExpectedPin("RST", GPIO_PIN_RESET),
     ExpectedPin("RST", GPIO_PIN_SET) >>
    \o ExpectedCommand("SCAN_DIRECTION_N1_0", <<>>)
    \o ExpectedCommand("HARDWARE_CONFIG", <<"SSD_PIN_CONFIG_ALT|SSD_COM_REMAP_DISABLE">>)
    \o ExpectedCommand("SEGMENT_REMAP_127", <<>>)
    \o ExpectedCommand("MEMORY_ADDR_MODE", <<"SSD_HORIZONTAL_ADDR">>)
    \o ExpectedCommand("CONTRAST_CONTROL", <<"SSD_CONTRAST_HIGHEST">>)
    \o ExpectedCommand("CLOCK_DIVIDE_RATIO", <<"SSD_CLOCK_FREQ_MID|SSD_CLOCK_DIVIDER_1">>)
    \o ExpectedCommand("CHG_PUMP_REGULATOR", <<"SSD_ENABLE_CHG_PUMP">>)
    \o ExpectedCommand("DISPLAY_ON", <<>>)
    \o ExpectedCommand("COLUMN_ADDRESS", <<0, 127>>)
    \o ExpectedCommand("PAGE_ADDRESS", <<0, 31>>)
    \o ExpectedData([i \in 1..1024 |-> 0])

(* The event e is the expected x: same kind, line, level and length first,  *)
(* then the same bytes                                                      *)
IsExpected(e, x) ==
  /\ e.ev = x.ev
  /\ e.pin = x.pin
  /\ e.level = x.level
  /\ e.dc = x.dc
  /\ Len(e.bytes) = Len(x.bytes)
  /\ e.bytes = x.bytes
  /\ (e.ev = "transmit") => (e.cs = GPIO_PIN_RESET)

AllTransmitsOk ==
  \A i \in 1..Len(bus) : IsSpiRequest(bus[i]) => (bus[i].status = HAL_OK)

(* C8: when every SPI transmit succeeds, SSD1306initialise deasserts CS,    *)
(* pulses RST low then high, sends the 8 commands of the init script in     *)
(* order, each with its 0 or 1 parameter, then COLUMN_ADDRESS [0,127], then *)
(* PAGE_ADDRESS [0,31], then one data transfer of 1024 bytes, and nothing   *)
(* else.                                                                    *)
C8_InitialiseSequence ==
  (IsCall("SSD1306initialise") /\ AllTransmitsOk) =>
    /\ lastResult = ERR_SUCCESS
    /\ Len(bus) = Len(ExpectedInitialise)
    /\ \A i \in 1..Len(bus) : IsExpected(bus[i], ExpectedInitialise[i])

C8_Witness ==
  /\ IsCall("SSD1306initialise")
  /\ AllTransmitsOk
  /\ Len(SelectSeq(bus, IsSpiRequest)) = InitRequests
  /\ Len(bus[Len(bus) - 1].bytes) = MAX_DATA_SIZE

(* The step is the SSD1306update that renders the latched angle *)
RenderStep == (state = ST_PRINTING_ANGLE) /\ (lastCall'.fn = "SSD1306update")

(* The six slots of the angle a (hundredths of a degree) whose digits are   *)
(* those of v, by floor                                                     *)
SlotsByFloor(sign, v) ==
  <<sign, v \div 1000, (v \div 100) % 10, 10, ((v * 10) \div 100) % 10, 13>>

(* sign = '+' (11) if a >= -0.05, else '-' (12) with a replaced by -a;      *)
(* tens = floor(a/10), units = floor(a) mod 10, tenths = floor(a*10) mod 10 *)
ReferenceSlots(a) ==
  IF a >= -5 THEN SlotsByFloor(11, a) ELSE SlotsByFloor(12, -a)

(* The same with the digits taken from the magnitude of a *)
ReferenceSlotsOfMagnitude(a) ==
  SlotsByFloor(IF a >= -5 THEN 11 ELSE 12, IF a < 0 THEN -a ELSE a)

AllIndexesInFont(indexes) ==
  \A i \in 1..Len(indexes) : indexes[i] \in 0..(NB_NUMBERS - 1)

(* C9, as stated: for every angle a of [-90, +90] the six glyph indexes the *)
(* render tick computes are sign, floor(a/10), floor(a) mod 10, '.',        *)
(* floor(a*10) mod 10, degree, a having been negated when the sign is '-',  *)
(* and each index is in 0..13.                                              *)
C9_IndexesAreFloorOfAngle ==
  [][RenderStep =>
       /\ charIndexes' = ReferenceSlots(nextAngle)
       /\ AllIndexesInFont(charIndexes')]_vars

(* C9, amended: for every angle a of [-90, +90] the sign is '+' if          *)
(* a >= -0.05, else '-', and the digits are floor(|a|/10), floor(|a|) mod   *)
(* 10 and floor(|a|*10) mod 10 (truncation toward zero, which differs from  *)
(* floor for -0.05 <= a < 0); each index is in 0..13.                       *)
C9_IndexesAreDigitsOfMagnitude ==
  [][RenderStep =>
       /\ Len(charIndexes') = ANGLE_NB_CHARS
       /\ charIndexes' = ReferenceSlotsOfMagnitude(nextAngle)
       /\ AllIndexesInFont(charIndexes')]_vars

(* -45.67 rendered as - 4 5 . 6 *)
C9_Witness ==
  /\ IsCall("SSD1306update")
  /\ charIndexes = <<INDEX_MINUS, 4, 5, INDEX_DOT, 6, INDEX_DEG>>
  /\ nextAngle = 4567

(* C10: every accepted angle a with |a| < 0.05 is rendered + 0 0 . 0 degree;*)
(* an angle rendered with '-' is below -0.05.                               *)
C10_ThresholdAbsorbs ==
  [][RenderStep =>
       /\ (nextAngle > -5 /\ nextAngle < 5) =>
            (charIndexes' = <<INDEX_PLUS, 0, 0, INDEX_DOT, 0, INDEX_DEG>>)
       /\ (charIndexes'[INDEX_SIGN + 1] = INDEX_MINUS) => (nextAngle < -5)]_vars

(* -0.03 rendered as + 0 0 . 0 *)
C10_Witness ==
  /\ IsCall("SSD1306update")
  /\ nextAngle = -3
  /\ charIndexes = <<INDEX_PLUS, 0, 0, INDEX_DOT, 0, INDEX_DEG>>

IsDmaRequest(e) == e.ev = "transmit_dma"

(* The DMA requests of the last step *)
DmaRequests == SelectSeq(bus, IsDmaRequest)

(* C11: the payload handed to the DMA by the render tick is 132 bytes long  *)
(* and its byte number page*66 + char*11 + col (page in 0..1, char in 0..5, *)
(* col in 0..10) is font[slot[char]][page*11 + col].                        *)
C11_PayloadIsGlyphsByPage ==
  \A i \in 1..Len(bus) :
    IsDmaRequest(bus[i]) =>
      /\ Len(bus[i].bytes) = 132
      /\ \A page \in 0..1, char \in 0..5, col \in 0..10 :
           bus[i].bytes[(page * 66) + (char * 11) + col + 1]
             = verdana_16ptNumbers[charIndexes[char + 1] + 1][(page * 11) + col + 1]

(* -45.67: byte 69 is column 3 of the lower page of '-', byte 11 is column  *)
(* 0 of the upper page of '4'                                               *)
C11_Witness ==
  /\ IsCall("SSD1306update")
  /\ nextAngle = 4567
  /\ Len(DmaRequests) = 1
  /\ DmaRequests[1].status = HAL_OK
  /\ charIndexes[1] = INDEX_MINUS
  /\ DmaRequests[1].bytes[70] = 3
  /\ DmaRequests[1].bytes[12] = verdana_16ptNumbers[5][1]

(* The latched request *)
latched == <<nextAngle, nextPage, nextColumn>>

(* The step is a call of SSD1306_printAngle that was accepted *)
AcceptedPrintStep == PrintAngleStep /\ (lastResult' = ERR_SUCCESS)

(* In the trace b, event i is the 2-byte parameter of the command reg *)
IsWindowIn(b, reg, i) ==
  /\ i > 1
  /\ b[i].ev = "transmit"
  /\ Len(b[i].bytes) = 2
  /\ b[i - 1].ev = "transmit"
  /\ b[i - 1].bytes = <<reg>>

(* The 132 bytes that render the angle a: byte k - 1 belongs to page        *)
(* (k-1) / 66, to character ((k-1) mod 66) / 11 and to column (k-1) mod 11  *)
ExpectedPayload(a) ==
  [k \in 1..132 |->
     verdana_16ptNumbers[ReferenceSlotsOfMagnitude(a)[(((k - 1) % 66) \div 11) + 1] + 1]
                        [(((k - 1) \div 66) * 11) + ((k - 1) % 11) + 1]]

(* Every window and payload of the trace b is the one of the request        *)
(* (a, p, c), the ends of the windows being 8-bit values                    *)
TrafficIsOf(b, a, p, c) ==
  \A i \in 1..Len(b) :
    /\ IsWindowIn(b, "COLUMN_ADDRESS", i) => (b[i].bytes = <<c, (c + 65) % 256>>)
    /\ IsWindowIn(b, "PAGE_ADDRESS", i) => (b[i].bytes = <<p, (p + 1) % 256>>)
    /\ IsDmaRequest(b[i]) => (b[i].bytes = ExpectedPayload(a))

(* C12: the windows and the payload sent by a render are a function of the  *)
(* arguments (a, p, c) of the request alone.  The driver enters             *)
(* stPrintingAngle only by an accepted request, which latches its           *)
(* arguments; the latch is not touched until the render; and the render     *)
(* sends the traffic of the latched request whatever the buffer, the lines  *)
(* and the earlier requests were.                                           *)
C12_TrafficDependsOnRequestOnly ==
  /\ [][((state' = ST_PRINTING_ANGLE) /\ (state # ST_PRINTING_ANGLE))
          => AcceptedPrintStep]_vars
  /\ [][AcceptedPrintStep
          => (latched' = <<lastCall'.angle, lastCall'.page, lastCall'.column>>)]_vars
  /\ [][((state = ST_PRINTING_ANGLE) /\ ~AcceptedPrintStep /\ ~RenderStep)
          => (latched' = latched /\ state' = ST_PRINTING_ANGLE)]_vars
  /\ [][RenderStep
          => (/\ TrafficIsOf(bus', nextAngle, nextPage, nextColumn)
              /\ state' # ST_PRINTING_ANGLE)]_vars

(* the render of (12.3, 2, 10): COLUMN_ADDRESS [10, 75], PAGE_ADDRESS       *)
(* [2, 3], then the payload, the latched page and column being overwritten  *)
C12_Witness ==
  /\ IsCall("SSD1306update")
  /\ Len(bus) = 13
  /\ IsWindowIn(bus, "COLUMN_ADDRESS", 4)
  /\ bus[4].bytes = <<10, 75>>
  /\ IsWindowIn(bus, "PAGE_ADDRESS", 9)
  /\ bus[9].bytes = <<2, 3>>
  /\ IsDmaRequest(bus[13])
  /\ bus[13].bytes = ExpectedPayload(1230)
  /\ latched = <<1230, VERDANA_NB_PAGES, VERDANA_CHAR_WIDTH>>

(* A blocking transmit of command class (DC low) of the last step failed *)
CommandTransmitFailed ==
  \E i \in 1..Len(bus) :
    /\ bus[i].ev = "transmit"
    /\ bus[i].dc = GPIO_PIN_RESET
    /\ bus[i].status # HAL_OK

(* C13: when the COLUMN_ADDRESS or the PAGE_ADDRESS command of a render     *)
(* tick fails, that SSD1306update returns an error, sets the state to idle  *)
(* and does not launch the DMA: no data-class assertion of CS, no           *)
(* HAL_SPI_Transmit_DMA.                                                    *)
C13_FailedAddressCommandStopsRender ==
  (IsCall("SSD1306update") /\ CommandTransmitFailed) =>
    /\ IS_ERROR(lastResult)
    /\ state = ST_IDLE
    /\ Len(DmaRequests) = 0
    /\ pinDC = GPIO_PIN_RESET
    /\ pinCS = GPIO_PIN_SET

(* The trace b holds a call of HAL_SPI_DMAStop *)
DmaStoppedIn(b) == \E i \in 1..Len(b) : b[i].ev = "dma_stop"

(* C14: a SSD1306update that finds the driver in stWaitingForTXdone and the *)
(* SPI peripheral ready (the DMA is over) returns success, deasserts CS and *)
(* moves to idle without aborting the DMA, whatever the deadline counter    *)
(* holds and however long the application waited before the call.           *)
C14_CompletedTransferNeverTimesOut ==
  [][((state = ST_WAITING_FOR_TX_DONE) /\ (spiState = HAL_SPI_STATE_READY)
        /\ (lastCall'.fn = "SSD1306update"))
       => (/\ lastResult' = ERR_SUCCESS
           /\ state' = ST_IDLE
           /\ pinCS' = GPIO_PIN_SET
           /\ ~DmaStoppedIn(bus'))]_vars

(* The SPI requests of the last step and those expected of an initialise *)
SpiRequests == SelectSeq(bus, IsSpiRequest)
ExpectedInitialiseRequests == SelectSeq(ExpectedInitialise, IsSpiRequest)

(* Request i of the last step transmitted the bytes b successfully *)
Transmitted(i, b) ==
  /\ Len(SpiRequests[i].bytes) = Len(b)
  /\ SpiRequests[i].bytes = b
  /\ SpiRequests[i].status = HAL_OK

(* C15: SSD1306initialise stops at the first failing step: a transmit that  *)
(* failed is the last one of the call and the call returns an error; what   *)
(* was sent is the beginning of the full sequence, so DISPLAY_ON is sent    *)
(* only after the charge pump command and its parameter were transmitted    *)
(* successfully; CS is deasserted when the call returns, in every case.     *)
C15_InitialiseStopsAtFirstFailure ==
  IsCall("SSD1306initialise") =>
    /\ pinCS = GPIO_PIN_SET
    /\ bus[Len(bus)] = GpioEvent("CS", GPIO_PIN_SET)
    /\ Len(SpiRequests) <= Len(ExpectedInitialiseRequests)
    /\ \A i \in 1..Len(SpiRequests) :
         /\ Len(SpiRequests[i].bytes) = Len(ExpectedInitialiseRequests[i].bytes)
         /\ SpiRequests[i].bytes = ExpectedInitialiseRequests[i].bytes
         /\ (SpiRequests[i].status # HAL_OK) =>
              (i = Len(SpiRequests) /\ IS_ERROR(lastResult))
         /\ (SpiRequests[i].bytes = <<"DISPLAY_ON">>) =>
              (/\ i > 2
               /\ Transmitted(i - 2, <<"CHG_PUMP_REGULATOR">>)
               /\ Transmitted(i - 1, <<"SSD_ENABLE_CHG_PUMP">>))
    /\ (Len(SpiRequests) < Len(ExpectedInitialiseRequests)) =>
         (IS_ERROR(lastResult) /\ SpiRequests[Len(SpiRequests)].status # HAL_OK)

(* the parameter of the charge pump command fails: initialise returns the   *)
(* error of SSD1306sendCommand tagged INIT 1 and DISPLAY_ON is not sent     *)
C15_Witness ==
  /\ IsCall("SSD1306initialise")
  /\ lastResult.stack = << <<"SEND_CMD", 3>>, <<"INIT", 1>> >>
  /\ SpiRequests[Len(SpiRequests)].bytes = <<"SSD_ENABLE_CHG_PUMP">>
  /\ SpiRequests[Len(SpiRequests)].status # HAL_OK
  /\ pinCS = GPIO_PIN_SET

(* C16: the data transfer sent by the clear step of SSD1306initialise holds *)
(* only zero bytes, at every call of SSD1306initialise, whatever requests   *)
(* and updates came before it.                                              *)
C16_ClearSendsZeros ==
  IsCall("SSD1306initialise") =>
    \A i \in 1..Len(bus) :
      ((bus[i].ev = "transmit") /\ (bus[i].dc = GPIO_PIN_SET)) =>
        (/\ Len(bus[i].bytes) = MAX_DATA_SIZE
         /\ \A k \in 1..Len(bus[i].bytes) : bus[i].bytes[k] = 0)

IsTransportCall == IsCall("SSD1306sendCommand") \/ IsCall("SSD1306sendData")

(* The call returned at a check of its arguments: more than MAX_PARAMETERS  *)
(* parameters; no data, no size, or a size above MAX_DATA_SIZE              *)
ArgumentCheckExit ==
  \/ IsCall("SSD1306sendCommand") /\ (lastCall.count > 6)
  \/ IsCall("SSD1306sendData")
       /\ (~lastCall.array \/ (lastCall.count = 0) \/ (lastCall.count > 1024))

(* When the command byte failed, nothing was transmitted after it *)
NothingAfterFailedCommandByte ==
  (IsCall("SSD1306sendCommand") /\ Len(SpiRequests) > 0
     /\ SpiRequests[1].status # HAL_OK) => (Len(SpiRequests) = 1)

ClassOf(e) ==
  IF IsDmaRequest(e) \/ (Len(e.bytes) > MAX_PARAMETERS)
  THEN GPIO_PIN_SET
  ELSE GPIO_PIN_RESET

IsPinWrite(e, pin, level) == (e.ev = "gpio") /\ (e.pin = pin) /\ (e.level = level)

(* C18: in every reachable state of the initialised driver in which CS is   *)
(* asserted, a transfer of the driver is active (between calls that is the  *)
(* DMA transfer, the state being stWaitingForTXdone) and DC is at the level *)
(* of its class; every SPI request is made with CS asserted and DC at the   *)
(* level of its class; DC is not written while CS is asserted.              *)
C18_CsAssertedOnlyDuringTransfer ==
  Initialised =>
    /\ (pinCS = GPIO_PIN_RESET) =>
         (/\ dmaOutstanding
          /\ state = ST_WAITING_FOR_TX_DONE
          /\ pinDC = GPIO_PIN_SET)
    /\ \A i \in 1..Len(bus) :
         /\ IsSpiRequest(bus[i]) =>
              (bus[i].cs = GPIO_PIN_RESET /\ bus[i].dc = ClassOf(bus[i]))
         /\ (bus[i].ev = "gpio" /\ bus[i].pin = "DC") =>
              \A j \in 1..(i - 1) :
                IsPinWrite(bus[j], "CS", GPIO_PIN_RESET) =>
                  \E k \in (j + 1)..(i - 1) : IsPinWrite(bus[k], "CS", GPIO_PIN_SET)

ExpectedDmaRequest(bytes) ==
  [ev |-> "transmit_dma", pin |-> "NONE", level |-> "NONE", dc |-> GPIO_PIN_SET,
   bytes |-> bytes]

(* What is expected on the bus of a render of (a, p, c) whose requests all  *)
(* succeed: the two windows, then DC = data, CS asserted, the DMA request   *)
ExpectedRender(a, p, c) ==
  ExpectedCommand("COLUMN_ADDRESS", <<c, (c + 65) % 256>>)
    \o ExpectedCommand("PAGE_ADDRESS", <<p, (p + 1) % 256>>)
    \o << ExpectedPin("DC", GPIO_PIN_SET), ExpectedPin("CS", GPIO_PIN_RESET),
          ExpectedDmaRequest(ExpectedPayload(a)) >>

(* Every SPI request of the trace b succeeded *)
AllOkIn(b) == \A i \in 1..Len(b) : IsSpiRequest(b[i]) => (b[i].status = HAL_OK)

(* The trace b asked for a DMA transfer *)
DmaRequestedIn(b) == \E i \in 1..Len(b) : IsDmaRequest(b[i])

(* The deadline while waiting: 10 at the launch, one less at each tick *)
DeadlineFollowsTicks ==
  (state = ST_WAITING_FOR_TX_DONE) =>
    /\ (ticks <= SPI_TIMEOUT_MS) => (screenTimer_ms = SPI_TIMEOUT_MS - ticks)
    /\ (screenTimer_ms = 0) => (ticks >= SPI_TIMEOUT_MS)

(* C19: a render tick whose requests all succeed sends, from the buffer it  *)
(* has just filled, COLUMN_ADDRESS then PAGE_ADDRESS with the windows of    *)
(* the column and page latched at request time, then sets DC = data,        *)
(* asserts CS and asks for the DMA of the 132 bytes, the deadline being set *)
(* to 10 ms by then (it is set even when the launch is refused); it ends in *)
(* stWaitingForTXdone.  While waiting the deadline is 0 only once 10 ticks  *)
(* have elapsed since the launch.                                           *)
C19_RenderOrderAndDeadline ==
  /\ [][(RenderStep /\ AllOkIn(bus')) =>
          (/\ Len(bus') = Len(ExpectedRender(nextAngle, nextPage, nextColumn))
           /\ \A i \in 1..Len(bus') :
                IsExpected(bus'[i], ExpectedRender(nextAngle, nextPage, nextColumn)[i])
           /\ bus'[Len(bus')].cs = GPIO_PIN_RESET
           /\ bus'[Len(bus')].bytes = screenBuffer'
           /\ state' = ST_WAITING_FOR_TX_DONE
           /\ lastResult' = ERR_SUCCESS)]_vars
  /\ [][(RenderStep /\ DmaRequestedIn(bus')) =>
          (screenTimer_ms' = SPI_TIMEOUT_MS /\ ticks' = 0)]_vars
  /\ []DeadlineFollowsTicks

(* the render of (12.3, 2, 10) just done, then the wait after 10 ticks *)
C19_Witness ==
  /\ state = ST_WAITING_FOR_TX_DONE
  /\ IsCall("SysTick_Handler")
  /\ charIndexes = <<INDEX_PLUS, 1, 2, INDEX_DOT, 3, INDEX_DEG>>
  /\ screenTimer_ms = 0
  /\ ticks = SPI_TIMEOUT_MS
  /\ dmaOutstanding

(* C20: for callers that request only when isScreenReady(), the frame       *)
(* buffer is written only by a render tick, which runs when no DMA launched *)
(* by the driver is outstanding and the SPI peripheral is ready; it is not  *)
(* written while the state is stWaitingForTXdone nor while a launched       *)
(* transfer has neither completed nor been aborted.                         *)
C20_BufferWrittenOnlyBeforeLaunch ==
  /\ [][RenderStep =>
          (/\ ~dmaOutstanding
           /\ spiState = HAL_SPI_STATE_READY
           /\ \A i \in 1..Len(bus') : IsDmaRequest(bus'[i]) => (i = Len(bus')))]_vars
  /\ [][(~RenderStep \/ state = ST_WAITING_FOR_TX_DONE \/ dmaOutstanding
           \/ spiState # HAL_SPI_STATE_READY)
          => (screenBuffer' = screenBuffer)]_vars

(* the buffer holding the glyphs of 12.3 while its transfer is in flight *)
C20_Witness ==
  /\ state = ST_WAITING_FOR_TX_DONE
  /\ spiState = HAL_SPI_STATE_BUSY_TX
  /\ dmaOutstanding
  /\ IsCall("SSD1306update")
  /\ ticks = 3
  /\ screenBuffer = ExpectedPayload(1230)

----------------------------------------------------------------------------
(* The step is a call of SSD1306update made while the driver is idle *)
IdleUpdateStep ==
  Initialised /\ (state = ST_IDLE) /\ (lastCall'.fn = "SSD1306update")

(* C21: the driver never stays busy: whenever it is not idle (which it is   *)
(* only after an accepted SSD1306_printAngle), it is eventually idle again, *)
(* isScreenReady() being true, provided SSD1306update keeps being called    *)
(* and the millisecond tick keeps coming, whatever the SPI peripheral       *)
(* answers and whether or not the DMA transfer ever completes; and a call   *)
(* of SSD1306update made while idle returns success, changes none of the    *)
(* driver's variables, lines or transfers and makes no bus traffic.         *)
C21_ReturnsToIdle ==
  /\ (~isScreenReady(state)) ~> isScreenReady(state)
  /\ [][IdleUpdateStep =>
          /\ UNCHANGED <<driverVars, pinVars, spiState, charIndexes,
                         dmaOutstanding>>
          /\ bus' = <<>>
          /\ lastResult' = ERR_SUCCESS]_vars

C21_Witness ==
  /\ isScreenReady(state)
  /\ IsCall("SSD1306update")
  /\ lastResult = DmaTimeout
  /\ spiState = HAL_SPI_STATE_READY
  /\ ~dmaOutstanding
  /\ ticks = MaxTicks

=============================================================================
